---- MODULE Spec2Model ----
(***************************************************************************)
(* The four maintenance scripts of the repository:                         *)
(*   patch-container.py          (Disabler)                                *)
(*   revert-container-patch.py   (Restorer)                                *)
(*   patch-tests.py              (Inserter)                                *)
(*   fix-adapter-mocks.py        (Remover)                                 *)
(* A file's content is a sequence of tokens.  A token is a piece of text   *)
(* that every pattern of the scripts matches whole or not at all: the      *)
(* statement container.reset();, the comment prefix, the rationale         *)
(* comment, a call-assertion head up to its opening parenthesis, the       *)
(* placeholder expect.any(String), a comma, a white-space character, a     *)
(* closing parenthesis, and other text.                                    *)
(***************************************************************************)
EXTENDS Naturals, Sequences, FiniteSets, TLC

VARIABLES fs, manifest, util, files, queue, pc, runs, snaps, failed, skipped, written,
          total_fixes

vars == <<fs, manifest, util, files, queue, pc, runs, snaps, failed, skipped, written,
          total_fixes>>

(***************************************************************************)
(* Bounds of the model.                                                    *)
(***************************************************************************)
\* How many fragments an initial file content is concatenated from.
MaxFrags == 3
\* How many script invocations one behaviour holds.
MaxRuns == 2

(***************************************************************************)
(* Tokens.                                                                 *)
(***************************************************************************)
LiveStmt == "container.reset();"
CommentPrefix == "// "
Rationale == " // Removed to preserve src/container.ts registrations"
\* '// container.reset(); // Removed to preserve src/container.ts registrations'
Marker == <<CommentPrefix, LiveStmt, Rationale>>

Placeholder == "expect.any(String)"
Comma == ","
Space == " "
RParen == ")"
Other == "x"
\* "expect.any(String), "
Inserted == <<Placeholder, Comma, Space>>

HeadAdapter == "expect(userMgmtAdapterMock.createUser).toHaveBeenCalledWith("
HeadAdapterSpaced == "expect ( userMgmtAdapterMock.createUser ).toHaveBeenCalledWith ("
HeadRepo == "expect(policyRepositoryMock.save).toHaveBeenCalledWith("
HeadService == "expect(mockUserAdminService.createUser).toHaveBeenCalledWith("

\* What a call-assertion head token spells: the mock identifier, and whether
\* white space stands where the Inserter's pattern allows \s*.
CallOf ==
    (HeadAdapter :> [mock |-> "userMgmtAdapterMock", spaced |-> FALSE])
    @@ (HeadAdapterSpaced :> [mock |-> "userMgmtAdapterMock", spaced |-> TRUE])
    @@ (HeadRepo :> [mock |-> "policyRepositoryMock", spaced |-> FALSE])
    @@ (HeadService :> [mock |-> "mockUserAdminService", spaced |-> FALSE])

IsCallHead(tok) == tok \in DOMAIN CallOf

(***************************************************************************)
(* Python's str operations, on token sequences.                            *)
(***************************************************************************)
StartsWith(s, p) == Len(s) >= Len(p) /\ SubSeq(s, 1, Len(p)) = p

\* sub in s
Contains(s, sub) ==
    \E i \in 1..Len(s) : i + Len(sub) - 1 <= Len(s) /\ SubSeq(s, i, i + Len(sub) - 1) = sub

\* s.replace(old, new): every non-overlapping occurrence, leftmost first.
RECURSIVE Replace(_, _, _)
Replace(s, old, new) ==
    IF s = <<>> THEN <<>>
    ELSE IF StartsWith(s, old)
         THEN new \o Replace(SubSeq(s, Len(old) + 1, Len(s)), old, new)
         ELSE <<Head(s)>> \o Replace(Tail(s), old, new)

(***************************************************************************)
(* patch-container.py                                                      *)
(***************************************************************************)
DisablerWrites(content) == Contains(content, <<LiveStmt>>)

Disabler(content) ==
    IF Contains(content, <<LiveStmt>>)
    THEN Replace(content, <<LiveStmt>>, Marker)
    ELSE content

(***************************************************************************)
(* revert-container-patch.py                                               *)
(***************************************************************************)
RestorerWrites(content) == Contains(content, Marker)

\* A Restorer whose marker lacks the rationale comment.
RestorerKeepsRationale(content) ==
    IF Contains(content, <<CommentPrefix, LiveStmt>>)
    THEN Replace(content, <<CommentPrefix, LiveStmt>>, <<LiveStmt>>)
    ELSE content

Restorer(content) ==
    IF Contains(content, Marker)
    THEN Replace(content, Marker, <<LiveStmt>>)
    ELSE content

(***************************************************************************)
(* patch-tests.py                                                          *)
(***************************************************************************)
mocks ==
    {"userProfileRepositoryMock", "policyRepositoryMock", "roleRepositoryMock",
     "permissionRepositoryMock", "assignmentRepositoryMock", "userMgmtAdapterMock",
     "idpAdapterMock", "userRepositoryMock", "mockUserProfileRepository",
     "mockPolicyRepository", "mockRoleRepository", "mockPermissionRepository",
     "mockAssignmentRepository", "mockUserMgmtAdapter"}

\* A pattern that takes any identifier for a mock name.
InserterPatternAnyMock(tok) == IsCallHead(tok)

\* pattern: expect\s*\(\s*(<mocks>)\.(\w+)\s*\)\.toHaveBeenCalledWith\s*\(
InserterPattern(tok) == IsCallHead(tok) /\ CallOf[tok].mock \in mocks

\* pattern.sub(replacer, content): match.group(0) + "expect.any(String), "
RECURSIVE InserterSub(_)
InserterSub(s) ==
    IF s = <<>> THEN <<>>
    ELSE IF InserterPattern(Head(s))
         THEN <<Head(s)>> \o Inserted \o InserterSub(Tail(s))
         ELSE <<Head(s)>> \o InserterSub(Tail(s))

Inserter(content) ==
    LET subbed == InserterSub(content)
        undoubled == Replace(subbed, <<Placeholder, Comma, Space, Placeholder>>,
                             <<Placeholder>>)
    IN  Replace(undoubled, <<Placeholder, Comma, Space, RParen>>,
                <<Placeholder, RParen>>)

InserterWrites(content) == content # Inserter(content)

(***************************************************************************)
(* fix-adapter-mocks.py                                                    *)
(***************************************************************************)
\* A pattern that takes any identifier for the mock name.
RemoverHeadAnyMock(tok) == IsCallHead(tok) /\ ~CallOf[tok].spaced

\* expect\(userMgmtAdapterMock\.\w+\)\.toHaveBeenCalledWith\(
RemoverHead(tok) ==
    IsCallHead(tok) /\ CallOf[tok].mock = "userMgmtAdapterMock" /\ ~CallOf[tok].spaced

\* \s*
RECURSIVE SkipSpace(_)
SkipSpace(s) == IF s # <<>> /\ Head(s) = Space THEN SkipSpace(Tail(s)) ELSE s

\* The pattern matches at the start of s.
RemoverMatch(s) ==
    Len(s) >= 3 /\ RemoverHead(s[1]) /\ s[2] = Placeholder /\ s[3] = Comma

\* pattern.subn(r'\1', content): [text |-> new_content, count |-> count]
RECURSIVE RemoverSubn(_)
RemoverSubn(s) ==
    IF s = <<>> THEN [text |-> <<>>, count |-> 0]
    ELSE IF RemoverMatch(s)
         THEN LET rest == RemoverSubn(SkipSpace(SubSeq(s, 4, Len(s))))
              IN  [text |-> <<s[1]>> \o rest.text, count |-> rest.count + 1]
         ELSE LET rest == RemoverSubn(Tail(s))
              IN  [text |-> <<Head(s)>> \o rest.text, count |-> rest.count]

Remover(content) == RemoverSubn(content).text

RemoverWrites(content) == RemoverSubn(content).count > 0

(***************************************************************************)
(* The file system and the scripts' file sets.                             *)
(***************************************************************************)
SpecPath == "tests/a.spec.ts"
E2ePath == "tests/b.e2e.spec.ts"
GonePath == "tests/gone.spec.ts"
TestPaths == {SpecPath, E2ePath}

Exists(p) == p \in DOMAIN fs

\* The sequences that list every element of S once: the order in which glob, or
\* the iteration of a Python set, yields them.
Orderings(S) ==
    {q \in [1..Cardinality(S) -> S] : \A i, j \in 1..Cardinality(S) : q[i] = q[j] => i = j}

\* glob.glob('tests/**/*.spec.ts', recursive=True)
GlobSpec == {p \in DOMAIN fs : p \in TestPaths}

\* glob.glob('tests/**/*.e2e.spec.ts', recursive=True)
GlobE2e == {p \in DOMAIN fs : p = E2ePath}

\* files_to_fix of fix-adapter-mocks.py: the two globs, concatenated.
RemoverFileLists == {a \o b : a \in Orderings(GlobSpec), b \in Orderings(GlobE2e)}

\* files of patch-container.py and of revert-container-patch.py.
GlobFileLists == Orderings(GlobSpec)

\* f.strip() of the lines failed-tests.txt may hold.
Strip ==
    ("" :> "") @@ ("  " :> "") @@ (SpecPath :> SpecPath)
    @@ ("tests/a.spec.ts " :> SpecPath) @@ (E2ePath :> E2ePath)
    @@ (GonePath :> GonePath)

\* set(f.strip() for f in files if f.strip())
ManifestPaths(lines) ==
    {Strip[lines[i]] : i \in {j \in 1..Len(lines) : Strip[lines[j]] # ""}}

\* files of patch-tests.py: list(set(...)), in any order.
InserterFileLists(lines) == Orderings(ManifestPaths(lines))

(***************************************************************************)
(* One script: what it makes of a file's content, and whether it writes.   *)
(***************************************************************************)
Transform(u, content) ==
    CASE u = "Disabler" -> Disabler(content)
      [] u = "Restorer" -> Restorer(content)
      [] u = "Inserter" -> Inserter(content)
      [] u = "Remover" -> Remover(content)

Writes(u, content) ==
    CASE u = "Disabler" -> DisablerWrites(content)
      [] u = "Restorer" -> RestorerWrites(content)
      [] u = "Inserter" -> InserterWrites(content)
      [] u = "Remover" -> RemoverWrites(content)

\* total_fixes += count
Fixes(u, content) == IF u = "Remover" THEN RemoverSubn(content).count ELSE 0

(***************************************************************************)
(* A script starts: it builds its file list.                               *)
(***************************************************************************)
CanStart == pc \in {"idle", "done", "crashed"} /\ Len(runs) < MaxRuns

Begin(u, list) ==
    /\ util' = u
    /\ files' = list
    /\ queue' = list
    /\ pc' = "running"
    /\ runs' = Append(runs, u)
    /\ snaps' = Append(snaps, fs)
    /\ failed' = {}
    /\ skipped' = {}
    /\ written' = <<>>
    /\ total_fixes' = 0
    /\ UNCHANGED <<fs, manifest>>

StartDisabler == CanStart /\ \E list \in GlobFileLists : Begin("Disabler", list)

StartRestorer == CanStart /\ \E list \in GlobFileLists : Begin("Restorer", list)

StartRemover == CanStart /\ \E list \in RemoverFileLists : Begin("Remover", list)

StartInserter ==
    /\ CanStart
    /\ manifest.exists
    /\ \E list \in InserterFileLists(manifest.lines) : Begin("Inserter", list)

\* open('failed-tests.txt') raises outside any try: the script ends there.
InserterNoManifest ==
    /\ CanStart
    /\ ~manifest.exists
    /\ util' = "Inserter"
    /\ files' = <<>>
    /\ queue' = <<>>
    /\ pc' = "crashed"
    /\ runs' = Append(runs, "Inserter")
    /\ snaps' = Append(snaps, fs)
    /\ failed' = {}
    /\ skipped' = {}
    /\ written' = <<>>
    /\ total_fixes' = 0
    /\ UNCHANGED <<fs, manifest>>

(***************************************************************************)
(* One iteration of a script's loop over its files.                        *)
(***************************************************************************)
Looping == pc = "running" /\ queue # <<>>

\* The iteration ends and the loop goes on to the next file.
NextFile == queue' = Tail(queue) /\ pc' = "running"

\* No except clause: the exception ends the script.
Uncaught(f) == failed' = failed \cup {f} /\ queue' = <<>> /\ pc' = "crashed"

\* except Exception as e: print(...); the loop goes on.
Caught(f) == failed' = failed \cup {f} /\ NextFile

\* patch-tests.py: if not os.path.exists(filepath): print; continue
SkipMissing ==
    /\ Looping
    /\ util = "Inserter"
    /\ ~Exists(Head(queue))
    /\ skipped' = skipped \cup {Head(queue)}
    /\ NextFile
    /\ UNCHANGED <<fs, manifest, util, files, runs, snaps, failed, written, total_fixes>>

\* open(..., 'r') or f.read() raises.
ReadFails ==
    /\ Looping
    /\ Exists(Head(queue))
    /\ Caught(Head(queue))
    /\ UNCHANGED <<fs, manifest, util, files, runs, snaps, skipped, written, total_fixes>>

\* The file is read and nothing is to be written.
LeaveFile ==
    /\ Looping
    /\ Exists(Head(queue))
    /\ ~Writes(util, fs[Head(queue)])
    /\ NextFile
    /\ UNCHANGED <<fs, manifest, util, files, runs, snaps, failed, skipped, written, total_fixes>>

\* The file is read, transformed and written back.
RewriteFile ==
    /\ Looping
    /\ Exists(Head(queue))
    /\ Writes(util, fs[Head(queue)])
    /\ fs' = [fs EXCEPT ![Head(queue)] = Transform(util, fs[Head(queue)])]
    /\ written' = Append(written, Head(queue))
    /\ total_fixes' = total_fixes + Fixes(util, fs[Head(queue)])
    /\ NextFile
    /\ UNCHANGED <<manifest, util, files, runs, snaps, failed, skipped>>

\* open(..., 'w') raises and the file is as it was, or f.write raises after
\* open has emptied the file.
WriteFails ==
    /\ Looping
    /\ Exists(Head(queue))
    /\ Writes(util, fs[Head(queue)])
    /\ \E left \in {fs[Head(queue)], <<>>} : fs' = [fs EXCEPT ![Head(queue)] = left]
    /\ Caught(Head(queue))
    /\ UNCHANGED <<manifest, util, files, runs, snaps, skipped, written, total_fixes>>

\* The loop is over: the final message is printed.
Finish ==
    /\ pc = "running"
    /\ queue = <<>>
    /\ pc' = "done"
    /\ UNCHANGED <<fs, manifest, util, files, queue, runs, snaps, failed, skipped, written,
                   total_fixes>>

\* An iteration in which every read and write succeeds, or the end of the loop.
LoopStep == LeaveFile \/ RewriteFile \/ Finish

\* Any iteration, or the end of the loop.
Iteration == SkipMissing \/ ReadFails \/ WriteFails \/ LoopStep

(***************************************************************************)
(* Initial states and specifications.                                      *)
(***************************************************************************)
\* The texts concatenated from at most n fragments of F.
RECURSIVE Texts(_, _)
Texts(F, n) ==
    IF n = 0 THEN {<<>>}
    ELSE LET T == Texts(F, n - 1) IN T \cup {t \o f : t \in T, f \in F}

ContainerFragments ==
    {<<LiveStmt>>, <<CommentPrefix>>, <<Rationale>>, <<Other>>, Marker}

MockFragments ==
    {<<HeadAdapter>>, <<HeadAdapterSpaced>>, <<HeadRepo>>, <<HeadService>>,
     Inserted, <<Placeholder>>, <<Comma>>, <<Space>>, <<RParen>>, <<Other>>,
     <<Other, RParen>>}

SampleTexts ==
    {<<Other, LiveStmt>>,
     <<Other>> \o Marker,
     <<HeadRepo, Other, RParen>>,
     <<HeadAdapter>> \o Inserted \o Inserted \o <<Other, RParen>>,
     <<Other>> \o Inserted \o <<Placeholder, RParen>>}

\* failed-tests.txt: absent, or its lines.
NoManifest == [exists |-> FALSE, lines |-> <<>>]

Listing(lines) == [exists |-> TRUE, lines |-> lines]

SampleManifests ==
    {NoManifest,
     Listing(<<SpecPath, "", "tests/a.spec.ts ">>),
     Listing(<<GonePath, "  ", E2ePath>>),
     Listing(<<E2ePath, SpecPath>>)}

Start(fs0, m) ==
    /\ fs = fs0
    /\ manifest = m
    /\ util = "none"
    /\ files = <<>>
    /\ queue = <<>>
    /\ pc = "idle"
    /\ runs = <<>>
    /\ snaps = <<>>
    /\ failed = {}
    /\ skipped = {}
    /\ written = <<>>
    /\ total_fixes = 0

\* One test file, of every content the container fragments make.
InitContainer ==
    \E p \in {SpecPath} : \E c \in Texts(ContainerFragments, MaxFrags) : Start(p :> c, Listing(<<p>>))

\* One test file, of every content the call-assertion fragments make.
InitMocks ==
    \E p \in {SpecPath} : \E c \in Texts(MockFragments, MaxFrags) : Start(p :> c, Listing(<<p>>))

\* Two test files, each of a sample content, and a sample failed-tests.txt.
Init ==
    \E c1 \in SampleTexts : \E c2 \in SampleTexts : \E m \in SampleManifests :
        Start(SpecPath :> c1 @@ E2ePath :> c2, m)

NextContainer == StartDisabler \/ StartRestorer \/ LoopStep

NextMocks == StartInserter \/ StartRemover \/ LoopStep

Next ==
    \/ StartDisabler
    \/ StartRestorer
    \/ StartInserter
    \/ InserterNoManifest
    \/ StartRemover
    \/ Iteration

\* The Disabler and the Restorer on one file, every read and write succeeding.
SpecContainer == InitContainer /\ [][NextContainer]_vars

\* The Inserter and the Remover on one file, every read and write succeeding.
SpecMocks == InitMocks /\ [][NextMocks]_vars

\* The four scripts on a set of files, reads and writes failing at will.
Spec == Init /\ [][Next]_vars

(***************************************************************************)
(* Vocabulary of the properties.                                           *)
(***************************************************************************)
\* The last script invoked was u and has printed its final message.
Ran(u) == pc = "done" /\ util = u

\* Exactly the scripts of us were invoked, in that order, and the last is done.
RanInOrder(us) == pc = "done" /\ runs = us

\* The file system as the current script found it.
Before == snaps[Len(snaps)]

\* The positions of the call-assertion heads of s, in order.
RECURSIVE HeadsFrom(_, _)
HeadsFrom(s, i) ==
    IF i > Len(s) THEN <<>>
    ELSE (IF IsCallHead(s[i]) THEN <<i>> ELSE <<>>) \o HeadsFrom(s, i + 1)

HeadIdx(s) == HeadsFrom(s, 1)

\* The text before the first call-assertion head.
LeadText(s) == IF HeadIdx(s) = <<>> THEN s ELSE SubSeq(s, 1, HeadIdx(s)[1] - 1)

\* The n-th call-assertion head with all the text up to the next head.
Seg(s, n) ==
    LET idx == HeadIdx(s)
    IN  SubSeq(s, idx[n], IF n < Len(idx) THEN idx[n + 1] - 1 ELSE Len(s))

\* The n-th call-assertion: its head and the text up to and including the
\* closing parenthesis (up to the next head or the end, when there is none).
RECURSIVE CallEnd(_, _)
CallEnd(s, j) ==
    IF j > Len(s) THEN Len(s)
    ELSE IF s[j] = RParen THEN j
    ELSE IF IsCallHead(s[j]) THEN j - 1
    ELSE CallEnd(s, j + 1)

Call(s, n) == SubSeq(s, HeadIdx(s)[n], CallEnd(s, HeadIdx(s)[n] + 1))

\* The argument text of a call-assertion that is closed by a parenthesis.
Closed(call) == call[Len(call)] = RParen

Args(call) == SubSeq(call, 2, Len(call) - 1)

Has(s, tok) == \E i \in 1..Len(s) : s[i] = tok

\* Every call-assertion of s has its closing parenthesis.
WellFormed(s) == \A n \in 1..Len(HeadIdx(s)) : Closed(Call(s, n))

OnAdapterMock(tok) == IsCallHead(tok) /\ CallOf[tok].mock = "userMgmtAdapterMock"

OnKnownMock(tok) == IsCallHead(tok) /\ CallOf[tok].mock \in mocks

\* The call-assertions on userMgmtAdapterMock, in order.
AdapterCalls(s) ==
    LET all == [n \in 1..Len(HeadIdx(s)) |-> Call(s, n)]
    IN  SelectSeq(all, LAMBDA c : OnAdapterMock(c[1]))

\* s with what stands at its front removed, up to some point.
IsSuffixOf(t, s) == \E k \in 1..(Len(s) + 1) : t = SubSeq(s, k, Len(s))

(***************************************************************************)
(* The Disabler and the Restorer.                                          *)
(***************************************************************************)
\* C1: a second run of the Disabler leaves every file as the first run left
\* it and writes no file.
C1_DisablerIdempotent ==
    RanInOrder(<<"Disabler", "Disabler">>) => fs = snaps[2] /\ written = <<>>

\* C2: the Disabler and then the Restorer give back the content of every file
\* that held the live statement, whether or not it also held the marker.
C2_RoundTrip ==
    RanInOrder(<<"Disabler", "Restorer">>) =>
        \A p \in DOMAIN fs :
            Contains(snaps[1][p], <<LiveStmt>>) => fs[p] = snaps[1][p]

\* A file that held both the marker and a live statement of its own was
\* disabled and then restored.
C2_Witness ==
    /\ RanInOrder(<<"Disabler", "Restorer">>)
    /\ \E p \in DOMAIN fs :
          /\ snaps[1][p] = Marker \o <<Other, LiveStmt>>
          /\ snaps[2][p] = <<CommentPrefix>> \o Marker \o <<Rationale, Other>> \o Marker
          /\ fs[p] = snaps[1][p]
          /\ written = <<p>>

(***************************************************************************)
(* The Inserter and the Remover.                                           *)
(***************************************************************************)
\* Right after a head on a known mock stand two placeholders in a row.
Doubled(s) ==
    \E i \in 1..Len(s) :
        /\ OnKnownMock(s[i])
        /\ StartsWith(SubSeq(s, i + 1, Len(s)), Inserted \o <<Placeholder>>)

\* Right after a head on a known mock stands a placeholder whose separator
\* is followed by nothing but the closing parenthesis.
Dangling(s) ==
    \E i \in 1..Len(s) :
        /\ OnKnownMock(s[i])
        /\ StartsWith(SubSeq(s, i + 1, Len(s)), <<Placeholder, Comma>>)
        /\ StartsWith(SkipSpace(SubSeq(s, i + 3, Len(s))), <<RParen>>)

\* C3: the Inserter run again on text whose call-assertions carry the one
\* placeholder the first run inserted leaves no call-assertion with two
\* placeholders in a row or with a dangling separator.
C3_SecondInsertNormalizes ==
    RanInOrder(<<"Inserter", "Inserter">>) =>
        \A p \in DOMAIN fs :
            ~Has(snaps[1][p], Placeholder) => ~Doubled(fs[p]) /\ ~Dangling(fs[p])

\* C4: a second run of the Inserter leaves every file as the first run left it.
C4_InserterIdempotent ==
    RanInOrder(<<"Inserter", "Inserter">>) => fs = snaps[2]

\* C6: the Remover leaves the text before the first call-assertion and every
\* call-assertion on another mock as they were, and takes text away only
\* right after the head of a call-assertion on userMgmtAdapterMock.
C6_RemoverScope ==
    Ran("Remover") =>
        \A p \in DOMAIN fs :
            LET b == Before[p]
                a == fs[p]
            IN  /\ Len(HeadIdx(a)) = Len(HeadIdx(b))
                /\ LeadText(a) = LeadText(b)
                /\ \A n \in 1..Len(HeadIdx(b)) :
                      IF OnAdapterMock(b[HeadIdx(b)[n]])
                      THEN /\ Seg(a, n)[1] = Seg(b, n)[1]
                           /\ IsSuffixOf(Tail(Seg(a, n)), Tail(Seg(b, n)))
                      ELSE Seg(a, n) = Seg(b, n)

\* The Remover took the placeholder out of an adapter call and left the one
\* of a repository call standing.
C6_Witness ==
    /\ Ran("Remover")
    /\ \E p \in DOMAIN fs :
          /\ Before[p] = <<HeadAdapter>> \o Inserted \o <<HeadRepo>> \o Inserted
          /\ fs[p] = <<HeadAdapter, HeadRepo>> \o Inserted
          /\ written = <<p>>

\* C8: the Inserter puts 'expect.any(String), ' right after the opening
\* parenthesis of every call-assertion on a known mock whose argument list is
\* not empty and holds no placeholder, and leaves the arguments as they were;
\* a call-assertion on any other name does not grow.
C8_InserterResult ==
    Ran("Inserter") =>
        \A p \in DOMAIN fs :
            LET b == Before[p]
                a == fs[p]
            IN  /\ Len(HeadIdx(a)) = Len(HeadIdx(b))
                /\ \A n \in 1..Len(HeadIdx(b)) :
                      LET call == Call(b, n)
                      IN  IF OnKnownMock(call[1])
                          THEN (/\ Closed(call)
                                /\ Args(call) # <<>>
                                /\ ~Has(Args(call), Placeholder))
                               => StartsWith(Seg(a, n),
                                             <<call[1]>> \o Inserted \o Tail(call))
                          ELSE Len(Seg(a, n)) <= Len(Seg(b, n))

\* The call on policyRepositoryMock got its placeholder and the call on
\* mockUserAdminService did not.
C8_Witness ==
    /\ Ran("Inserter")
    /\ \E p \in DOMAIN fs :
          /\ Before[p] = <<HeadService, HeadRepo, Other, RParen>>
          /\ fs[p] = <<HeadService, HeadRepo>> \o Inserted \o <<Other, RParen>>
          /\ written = <<p>>

\* C10: the Inserter and then the Remover leave every call-assertion on
\* userMgmtAdapterMock as it was.
C10_RemoverUndoesInserter ==
    RanInOrder(<<"Inserter", "Remover">>) =>
        \A p \in DOMAIN fs :
            WellFormed(snaps[1][p]) => AdapterCalls(fs[p]) = AdapterCalls(snaps[1][p])

(***************************************************************************)
(* The scripts on a set of files.                                          *)
(***************************************************************************)
\* The content holds nothing script u looks for.
NoTarget(u, s) ==
    CASE u = "Disabler" -> ~Has(s, LiveStmt)
      [] u = "Restorer" -> ~Contains(s, Marker)
      [] u = "Inserter" -> \A i \in 1..Len(s) : ~OnKnownMock(s[i])
      [] u = "Remover" -> \A i \in 1..Len(s) : ~OnAdapterMock(s[i])

\* C5: a script run, with no read or write failing, over files none of which
\* holds what it looks for leaves every file as it was and writes none.
C5_NoOpSafety ==
    (/\ pc \in {"running", "done"}
     /\ failed = {}
     /\ \A p \in DOMAIN Before : NoTarget(util, Before[p]))
        => fs = Before /\ written = <<>> /\ total_fixes = 0

\* How often path p stands in the list.
Count(list, p) == Cardinality({i \in 1..Len(list) : list[i] = p})

\* C7: after a run of the Remover in which nothing failed, every file holds
\* its content with the substitution applied once, and was written at most
\* once.
C7_RemoverSinglePass ==
    (Ran("Remover") /\ failed = {}) =>
        \A p \in DOMAIN fs : fs[p] = Remover(Before[p]) /\ Count(written, p) <= 1

\* The script applied n times over.
RECURSIVE Times(_, _, _)
Times(u, content, n) ==
    IF n = 0 THEN content ELSE Times(u, Transform(u, content), n - 1)

Listed == {files[i] : i \in 1..Len(files)}

\* C9: a failure on a file never ends a run.  Only a missing failed-tests.txt
\* ends a script before its final message; a running script can always take
\* its next step; and when the final message is printed every listed path
\* that is no file was skipped, and every file on which nothing failed holds
\* what the script makes of it, once for each time it is listed.
C9_FailuresDoNotAbort ==
    /\ pc = "crashed" => failed = {} /\ util = "Inserter" /\ ~manifest.exists
    /\ pc = "running" => ENABLED Iteration
    /\ pc = "done" =>
          /\ failed \subseteq Listed
          /\ skipped = {p \in Listed : p \notin DOMAIN fs}
          /\ \A p \in DOMAIN fs :
                p \notin failed => fs[p] = Times(util, Before[p], Count(files, p))

\* The first file of the list failed, and the second was rewritten all the
\* same before the final message.
C9_Witness ==
    /\ pc = "done"
    /\ Len(files) = 2
    /\ failed = {files[1]}
    /\ written = <<files[2]>>
    /\ fs[files[2]] # Before[files[2]]

====
